---- MODULE Spec2Model ----
(***************************************************************************)
(* StateManager of sacura (src/state.go): two ingestion loops (ReadSent,   *)
(* ReadReceived) record event IDs per partition key in the sent and the    *)
(* received ledger under s.lock.RLock; ReceivedCount, Diff and             *)
(* GenerateReport read the ledgers under s.lock.RLock; Terminated sets the *)
(* terminated flag and the metrics under s.lock.Lock.                      *)
(*                                                                         *)
(* An event ID "e<i>" is a string; sort.Strings orders them bytewise,      *)
(* which for the IDs used here is the order of IDSeq.                      *)
(***************************************************************************)
EXTENDS Integers, Sequences, FiniteSets, TLC

VARIABLES
    ordered,      \* s.config.Ordered
    sent,         \* s.sent: partition key -> sequence of IDs
    received,     \* s.received
    terminated,   \* s.terminated
    metrics,      \* s.metrics
    readerCount,  \* s.lock: number of holders of the read lock
    writer,       \* s.lock: "none", "pending" (Lock called, waiting), "held"
    pc,           \* position of every goroutine
    taken,        \* per loop: the events it has taken from its source, in order
    closed,       \* per loop: its source channel has been closed
    sg,           \* per loop: number of completion signals emitted on sg
    budget,       \* the number of events the sources deliver in all
    pk,           \* per loop: insert's local pk
    op,           \* per caller: the query it is running
    todo,         \* per caller: keys of the ranged map when the range started
    seen,         \* per caller: keys its range has produced
    ret,          \* per caller: the value being built / returned
    low,          \* per caller: the IDs in the received ledger when its call began
    targ,         \* the metrics argument of the Terminated call
    crashed,      \* the process died (panic or runtime fatal error)
    a,            \* removeDuplicates: its argument when called on its own
    rd            \* removeDuplicates: what that call returned

vars == <<ordered, sent, received, terminated, metrics, readerCount, writer, pc,
          taken, closed, sg, budget, pk, op, todo, seen, ret, low, targ, crashed,
          a, rd>>

\* ------------------------------------------------------------------ bounds
MaxEvents == 1      \* events the two sources deliver in all (concurrent model)
NumCallers == 1     \* goroutines calling ReceivedCount / Diff / GenerateReport
MaxSentLen == 2     \* sent events of a settled ledger (sequential model)
MaxReceivedLen == 2 \* received events of a settled ledger (sequential model)
MaxRestartEvents == 2 \* events delivered in all when ReadSent was started twice
MaxLoopEvents == 2  \* events the two sources deliver in all (loops on their own)
MaxDedupLen == 4    \* length of removeDuplicates' argument when called on its own

\* --------------------------------------------------------------- constants
unknownPartitionKey == "unknown"

IDSeq == <<"e1", "e2", "e3">>
IDs == {IDSeq[i] : i \in 1..Len(IDSeq)}
Rank(id) == CHOOSE i \in 1..Len(IDSeq) : IDSeq[i] = id

\* The "partitionkey" extension of an event: absent, a string, or a value of
\* another type.
NoExt == <<"absent", "">>
StrExt(s) == <<"string", s>>
OtherExt == <<"other", "">>
Exts == {NoExt, StrExt("p1"), OtherExt}
WellFormed == [id : IDs, ext : {NoExt, StrExt("p1")}]
\* The events the sources of the two running loops deliver. They carry one
\* ID: what the running manager is checked for does not depend on which ID
\* an event has, and the order of a ledger sequence (which concurrent
\* sort.Strings calls on one slice could leave in any state) is studied on
\* settled ledgers, with one caller.
Delivered == [id : {"e1"}, ext : Exts]
Keys == {unknownPartitionKey, "p1"}

Metrics == {"m1"}
ZeroMetrics == "m0"     \* the zero value of Metrics

Loops == {"ReadSent", "ReadReceived"}
\* the goroutine of a second ReadSent call on the same manager
SecondReadSent == "ReadSent/2"
SentLoops == {"ReadSent", SecondReadSent}
CallerNames == <<"q1", "q2", "q3">>
Callers == {CallerNames[i] : i \in 1..NumCallers}
Ops == {"ReceivedCount", "Diff", "GenerateReport"}
Procs == Loops \cup Callers \cup {"Terminated"}
\* the loops that have been started
Started == DOMAIN taken

NIL == <<"nil">>        \* a nil slice (var received []string)

\* ------------------------------------------------------------ sequences
RECURSIVE SeqsUpTo(_, _)
SeqsUpTo(S, n) ==
    IF n = 0 THEN {<<>>}
    ELSE LET shorter == SeqsUpTo(S, n - 1)
         IN  shorter \cup {Append(s, x) : s \in {t \in shorter : Len(t) = n - 1}, x \in S}

Range(s) == {s[i] : i \in 1..Len(s)}

\* sort.Strings: ascending, bytewise
RECURSIVE InsertSorted(_, _)
InsertSorted(s, x) ==
    IF s = <<>> THEN <<x>>
    ELSE IF Rank(x) < Rank(Head(s)) THEN <<x>> \o s
    ELSE <<Head(s)>> \o InsertSorted(Tail(s), x)

RECURSIVE SortStrings(_)
SortStrings(s) ==
    IF s = NIL \/ s = <<>> THEN s
    ELSE InsertSorted(SortStrings(Tail(s)), Head(s))

\* sets.String.List(): the members, sorted
RECURSIVE SetList(_)
SetList(S) ==
    IF S = {} THEN <<>>
    ELSE LET m == CHOOSE x \in S : \A y \in S : Rank(x) <= Rank(y)
         IN  <<m>> \o SetList(S \ {m})

\* --------------------------------------------------- removeDuplicates
\* The loop of removeDuplicates from index i on: t is the seen-set, result
\* and duplicates the two slices built so far.
RECURSIVE removeDuplicatesFrom(_, _, _, _, _)
removeDuplicatesFrom(arg, i, t, result, duplicates) ==
    IF i > Len(arg) THEN <<result, duplicates>>
    ELSE LET v == arg[i]
         IN  IF v \notin t
             THEN removeDuplicatesFrom(arg, i + 1, t \cup {v}, Append(result, v), duplicates)
             ELSE removeDuplicatesFrom(arg, i + 1, t \cup {v}, result, Append(duplicates, v))

\* removeDuplicates comparing each element with its predecessor only: repeats
\* that are not adjacent pass as first occurrences.
RECURSIVE AdjacentFrom(_, _, _, _)
AdjacentFrom(arg, i, result, duplicates) ==
    IF i > Len(arg) THEN <<result, duplicates>>
    ELSE IF i > 1 /\ arg[i] = arg[i - 1]
         THEN AdjacentFrom(arg, i + 1, result, Append(duplicates, arg[i]))
         ELSE AdjacentFrom(arg, i + 1, Append(result, arg[i]), duplicates)

removeDuplicatesAdjacent(arg) == AdjacentFrom(arg, 1, <<>>, <<>>)

removeDuplicates(arg) == removeDuplicatesFrom(arg, 1, {}, <<>>, <<>>)

\* ------------------------------------------------------------- insert
PANIC == "panic: interface conversion"

\* an insert that examines the extension whatever the mode
PartitionKeyAnyMode(e, ord) ==
    IF e.ext # NoExt
    THEN IF e.ext[1] = "string" THEN e.ext[2] ELSE PANIC
    ELSE unknownPartitionKey

\* an insert that falls back to "unknown" when the assertion fails
PartitionKeyLenient(e, ord) ==
    IF ord /\ e.ext # NoExt /\ e.ext[1] = "string" THEN e.ext[2]
    ELSE unknownPartitionKey

\* insert, lines 81-87: the partition key of event e, or PANIC when the type
\* assertion v.(string) fails.
PartitionKey(e, ord) ==
    IF ord /\ e.ext # NoExt
    THEN IF e.ext[1] = "string" THEN e.ext[2] ELSE PANIC
    ELSE unknownPartitionKey

\* an insert that makes a new sequence for the key every time
MakeKeyFresh(store, k) ==
    [x \in DOMAIN store \cup {k} |-> IF x = k THEN <<>> ELSE store[x]]

\* insert, lines 88-90: the sequence of key k is created on first use.
MakeKey(store, k) ==
    IF k \in DOMAIN store THEN store
    ELSE [x \in DOMAIN store \cup {k} |-> IF x = k THEN <<>> ELSE store[x]]

\* insert, line 91
AppendID(store, k, id) == [store EXCEPT ![k] = Append(@, id)]

\* insert as a whole, for an event whose key is not PANIC
insert(e, store, ord) ==
    LET k == PartitionKey(e, ord) IN AppendID(MakeKey(store, k), k, e.id)

\* The ledger a loop has built once it has inserted the events es in order.
RECURSIVE InsertAll(_, _, _)
InsertAll(es, store, ord) ==
    IF es = <<>> THEN store
    ELSE InsertAll(Tail(es), insert(Head(es), store, ord), ord)

EmptyMap == [k \in {} |-> <<>>]       \* make(map[string][]string)

Store(l) == IF l \in SentLoops THEN sent ELSE received

\* ---------------------------------------------------------------- Init
NoRet == <<"none">>
\* what a caller holds while it is in no call
NoValue == [none |-> TRUE]

\* NewStateManager, with ReadSent and ReadReceived started on open sources
Init ==
    /\ ordered \in BOOLEAN
    /\ sent = EmptyMap
    /\ received = EmptyMap
    /\ terminated = FALSE
    /\ metrics = ZeroMetrics
    /\ readerCount = 0
    /\ writer = "none"
    /\ pc = [p \in Procs |-> IF p \in Loops THEN "range" ELSE "idle"]
    /\ taken = [l \in Loops |-> <<>>]
    /\ closed = [l \in Loops |-> FALSE]
    /\ sg = [l \in Loops |-> 0]
    /\ budget = MaxEvents
    /\ pk = [l \in Loops |-> unknownPartitionKey]
    /\ op = [q \in Callers |-> "none"]
    /\ todo = [q \in Callers |-> {}]
    /\ seen = [q \in Callers |-> {}]
    /\ ret = [q \in Callers |-> NoValue]
    /\ low = [q \in Callers |-> 0]
    /\ targ = ZeroMetrics
    /\ crashed = FALSE
    /\ a = <<>>
    /\ rd = NoRet

managerVars == <<ordered, sent, received, terminated, metrics>>
lockVars == <<readerCount, writer>>
loopVars == <<taken, closed, sg, budget, pk>>
callerVars == <<op, todo, seen, ret, low>>
dedupVars == <<a, rd>>

\* ------------------------------------------------- s.lock (sync.RWMutex)
\* RLock succeeds unless a writer holds the lock or waits for it.
CanRLock == writer = "none"
\* a Lock that does not wait for the readers to leave
CanLockDespiteReaders == TRUE

\* Lock, once announced, succeeds when the last reader has left.
CanLock == readerCount = 0

\* ------------------------------------------- ReadSent / ReadReceived
\* the driver closes the source; the loop sees it at its next receive, so
\* only a close while the loop waits is told apart
Close(l) ==
    /\ ~crashed /\ ~closed[l] /\ pc[l] = "range"
    /\ closed' = [closed EXCEPT ![l] = TRUE]
    /\ UNCHANGED <<managerVars, lockVars, pc, taken, sg, budget, pk, callerVars, targ, crashed, dedupVars>>

RECURSIVE SumTaken(_)
SumTaken(ls) ==
    IF ls = {} THEN 0
    ELSE LET l == CHOOSE x \in ls : TRUE IN Len(taken[l]) + SumTaken(ls \ {l})

\* the events the loops have taken from their sources so far
TakenInAll == SumTaken(Started)

\* for e := range sent: the source delivers event e; s.lock.RLock(); then
\* insert, lines 81-90: compute pk, create the key's sequence on first use.
\* (The receive is seen by no other goroutine, so it is taken together with
\* the RLock that follows it.) A failed type assertion panics: the deferred
\* RUnlock runs and the unrecovered panic ends the process.
Take(l, e) ==
    /\ ~crashed /\ pc[l] = "range" /\ ~closed[l]
    /\ TakenInAll < budget
    /\ CanRLock
    /\ taken' = [taken EXCEPT ![l] = Append(@, e)]
    /\ LET k == PartitionKey(e, ordered)
       IN  IF k = PANIC
           THEN /\ crashed' = TRUE
                /\ pc' = [pc EXCEPT ![l] = "panic"]
                /\ UNCHANGED <<sent, received, pk, readerCount>>
           ELSE /\ pk' = [pk EXCEPT ![l] = k]
                /\ readerCount' = readerCount + 1
                /\ IF l \in SentLoops
                   THEN sent' = MakeKey(sent, k) /\ UNCHANGED received
                   ELSE received' = MakeKey(received, k) /\ UNCHANGED sent
                /\ pc' = [pc EXCEPT ![l] = "append"]
                /\ UNCHANGED crashed
    /\ UNCHANGED <<ordered, terminated, metrics, writer, closed, sg, budget, callerVars, targ,
                   dedupVars>>

\* Another started loop is inside an insertion under the same key of the
\* same ledger (both hold the read lock).
Racing(l) ==
    \E l2 \in Started \ {l} :
        pc[l2] = "append" /\ pk[l2] = pk[l] /\ (l2 \in SentLoops <=> l \in SentLoops)

\* what store[pk] = append(store[pk], id) leaves in the map: the sequence
\* with id appended or, when a racing insertion overwrites the element and
\* the slice header this one wrote, the sequence without it
Appended(l, store, id) ==
    IF Racing(l) THEN {AppendID(store, pk[l], id), store}
    ELSE {AppendID(store, pk[l], id)}

\* insert, line 91: store[pk] = append(store[pk], e.ID()), then the
\* deferred s.lock.RUnlock()
InsertAppend(l) ==
    /\ ~crashed /\ pc[l] = "append"
    /\ LET e == taken[l][Len(taken[l])]
       IN  IF l \in SentLoops
           THEN sent' \in Appended(l, sent, e.id) /\ UNCHANGED received
           ELSE received' \in Appended(l, received, e.id) /\ UNCHANGED sent
    /\ readerCount' = readerCount - 1
    /\ pc' = [pc EXCEPT ![l] = "range"]
    /\ pk' = [pk EXCEPT ![l] = unknownPartitionKey]
    /\ UNCHANGED <<ordered, terminated, metrics, writer, taken, closed, sg, budget, callerVars,
                   targ, crashed, dedupVars>>

\* a loop that signals whenever it waits for its next event, closed or not
SignalBeforeClose(l) ==
    /\ ~crashed /\ pc[l] = "range"
    /\ sg' = [sg EXCEPT ![l] = @ + 1]
    /\ pc' = [pc EXCEPT ![l] = "done"]
    /\ UNCHANGED <<managerVars, lockVars, taken, closed, budget, pk, callerVars, targ, crashed,
                   dedupVars>>

\* the range over the closed source ends; sg <- struct{}{}: the driver
\* receives the completion signal and the goroutine ends
Signal(l) ==
    /\ ~crashed /\ pc[l] = "range" /\ closed[l]
    /\ sg' = [sg EXCEPT ![l] = @ + 1]
    /\ pc' = [pc EXCEPT ![l] = "done"]
    /\ UNCHANGED <<managerVars, lockVars, taken, closed, budget, pk, callerVars, targ, crashed,
                   dedupVars>>

\* ------------------------------------------------------------ queries
LenOf(s) == IF s = NIL THEN 0 ELSE Len(s)           \* len of a possibly nil slice
RangeOf(s) == IF s = NIL THEN {} ELSE Range(s)

\* cmp.Diff(x, y): "" when x and y are equal (a nil slice differs from an
\* empty one), a non-empty text otherwise.
CmpDiff(x, y) == IF x = y THEN "" ELSE "(-want +got)"

\* sort.Strings(sent) in Diff and GenerateReport, lines 119-120 and 158-159:
\* sent shares its backing array with s.sent[k], so the ledger's sequence is
\* sorted in place.
SortInPlace(snt, k, ord) ==
    IF ord THEN snt ELSE [snt EXCEPT ![k] = SortStrings(@)]

\* ReceivedCount, lines 99-101: one iteration of the range
\* a ReceivedCount that counts the partitions instead of their events
ReceivedCountKeyPerPartition(count, k, rcv) == count + 1

ReceivedCountKey(count, k, rcv) == count + Len(rcv[k])

\* Diff, lines 109-110
DiffInit == [hasDiff |-> FALSE, fullDiff |-> <<"Diff by partition key\n">>]

\* Diff without sort.Strings(received)
DiffKeyUnsortedReceived(d, k, snt, rcv, ord) ==
    LET sentV == snt[k]
        receivedV == IF k \in DOMAIN rcv THEN removeDuplicates(rcv[k])[1] ELSE NIL
        diff == CmpDiff(receivedV, sentV)
    IN  [hasDiff |-> d.hasDiff \/ diff # "",
         fullDiff |-> Append(d.fullDiff, <<"partitionkey: ", k, diff>>)]

\* Diff, lines 112-129: one iteration of the range over s.sent; snt is the
\* sent ledger after the in-place sort.
DiffKey(d, k, snt, rcv, ord) ==
    LET sentV == snt[k]
        clean == IF k \in DOMAIN rcv THEN removeDuplicates(rcv[k])[1] ELSE NIL
        receivedV == IF ord THEN clean ELSE SortStrings(clean)
        diff == CmpDiff(receivedV, sentV)
    IN  [hasDiff |-> d.hasDiff \/ diff # "",
         fullDiff |-> Append(d.fullDiff, <<"partitionkey: ", k, diff>>)]

\* Diff, lines 131-134: the empty string is the empty sequence of pieces
\* a Diff that returns the per-key text whether or not a key differed
DiffReturnAlways(d) == d.fullDiff

\* a Diff that also reports when a key was received and never sent
DiffReturnUnexpectedKeys(d) ==
    IF ~d.hasDiff /\ DOMAIN received \subseteq DOMAIN sent THEN <<>> ELSE d.fullDiff

DiffReturn(d) == IF ~d.hasDiff THEN <<>> ELSE d.fullDiff

\* a report that does not read s.terminated
ReportInitNotTerminated(m, t) ==
    [LostCount |-> 0, DuplicateCount |-> 0, ReceivedCount |-> 0,
     Metrics |-> m, Terminated |-> FALSE,
     LostEventsByPartitionKey |-> EmptyMap,
     DuplicateEventsByPartitionKey |-> EmptyMap,
     ReceivedEventsByPartitionKey |-> EmptyMap]

\* GenerateReport, lines 141-148
ReportInit(m, t) ==
    [LostCount |-> 0, DuplicateCount |-> 0, ReceivedCount |-> 0,
     Metrics |-> m, Terminated |-> t,
     LostEventsByPartitionKey |-> EmptyMap,
     DuplicateEventsByPartitionKey |-> EmptyMap,
     ReceivedEventsByPartitionKey |-> EmptyMap]

\* m[k] = v on a map
Put(m, k, v) == [x \in DOMAIN m \cup {k} |-> IF x = k THEN v ELSE m[x]]

\* the elements of s that are not in S, repeats kept
RECURSIVE Without(_, _)
Without(s, S) ==
    IF s = <<>> THEN <<>>
    ELSE (IF Head(s) \in S THEN <<>> ELSE <<Head(s)>>) \o Without(Tail(s), S)

\* GenerateReport filtering the sent slice instead of taking a set difference
GenerateReportKeyLostSlice(r, k, snt, rcv, ord) ==
    LET v == snt[k]
        rdup == IF k \in DOMAIN rcv THEN removeDuplicates(rcv[k]) ELSE <<NIL, NIL>>
        receivedV == IF ord THEN rdup[1] ELSE SortStrings(rdup[1])
        duplicates == IF ord THEN rdup[2] ELSE SortStrings(rdup[2])
        lost == Without(v, RangeOf(receivedV))
    IN  [r EXCEPT
           !.LostEventsByPartitionKey = Put(@, k, lost),
           !.LostCount = @ + Len(lost),
           !.DuplicateEventsByPartitionKey = Put(@, k, duplicates),
           !.DuplicateCount = @ + LenOf(duplicates),
           !.ReceivedEventsByPartitionKey = Put(@, k, v),
           !.ReceivedCount = @ + Len(v)]

\* GenerateReport, lines 150-171: one iteration of the range over s.sent;
\* snt is the sent ledger after the in-place sort. v in lines 169-170 is the
\* range variable of line 150, the sent sequence (the v of line 154 is
\* scoped to the if statement).
\* a report whose lost IDs are the sent IDs missing from the duplicates
GenerateReportKeyLostVsDuplicates(r, k, snt, rcv, ord) ==
    LET v == snt[k]
        sentV == v
        rdup == IF k \in DOMAIN rcv THEN removeDuplicates(rcv[k]) ELSE <<NIL, NIL>>
        duplicates == IF ord THEN rdup[2] ELSE SortStrings(rdup[2])
        lost == SetList(Range(sentV) \ RangeOf(duplicates))
    IN  [r EXCEPT
           !.LostEventsByPartitionKey = Put(@, k, lost),
           !.LostCount = @ + Len(lost),
           !.DuplicateEventsByPartitionKey = Put(@, k, duplicates),
           !.DuplicateCount = @ + LenOf(duplicates),
           !.ReceivedEventsByPartitionKey = Put(@, k, v),
           !.ReceivedCount = @ + Len(v)]

GenerateReportKey(r, k, snt, rcv, ord) ==
    LET v == snt[k]
        sentV == v
        rdup == IF k \in DOMAIN rcv THEN removeDuplicates(rcv[k]) ELSE <<NIL, NIL>>
        receivedV == IF ord THEN rdup[1] ELSE SortStrings(rdup[1])
        duplicates == IF ord THEN rdup[2] ELSE SortStrings(rdup[2])
        lost == SetList(Range(sentV) \ RangeOf(receivedV))
    IN  [r EXCEPT
           !.LostEventsByPartitionKey = Put(@, k, lost),
           !.LostCount = @ + Len(lost),
           !.DuplicateEventsByPartitionKey = Put(@, k, duplicates),
           !.DuplicateCount = @ + LenOf(duplicates),
           !.ReceivedEventsByPartitionKey = Put(@, k, v),
           !.ReceivedCount = @ + Len(v)]

\* the number of IDs a ledger holds
RECURSIVE IDsUnder(_, _)
IDsUnder(store, ks) ==
    IF ks = {} THEN 0
    ELSE LET k == CHOOSE x \in ks : TRUE IN Len(store[k]) + IDsUnder(store, ks \ {k})

IDsIn(store) == IDsUnder(store, DOMAIN store)

\* the map a query ranges over
Ranged(o) == IF o = "ReceivedCount" THEN received ELSE sent

\* s.lock.RLock() and the statements before the range
Call(q, o) ==
    /\ ~crashed /\ pc[q] = "idle"
    /\ CanRLock
    /\ readerCount' = readerCount + 1
    /\ op' = [op EXCEPT ![q] = o]
    /\ todo' = [todo EXCEPT ![q] = DOMAIN Ranged(o)]
    /\ seen' = [seen EXCEPT ![q] = {}]
    /\ ret' = [ret EXCEPT ![q] =
                 CASE o = "ReceivedCount" -> [count |-> 0]
                   [] o = "Diff" -> DiffInit
                   [] o = "GenerateReport" -> ReportInit(metrics, terminated)]
    /\ low' = [low EXCEPT ![q] = IF o = "ReceivedCount" THEN IDsIn(received) ELSE 0]
    /\ pc' = [pc EXCEPT ![q] = "range"]
    /\ UNCHANGED <<managerVars, writer, loopVars, targ, crashed, dedupVars>>

\* one iteration of the range: the map yields key k (in any order; a key
\* created while the range runs may be produced or skipped)
Visit(q, k) ==
    /\ ~crashed /\ pc[q] = "range"
    /\ k \in DOMAIN Ranged(op[q]) /\ k \notin seen[q]
    /\ seen' = [seen EXCEPT ![q] = @ \cup {k}]
    /\ IF op[q] = "ReceivedCount"
       THEN /\ ret' = [ret EXCEPT ![q] = [count |-> ReceivedCountKey(@.count, k, received)]]
            /\ UNCHANGED sent
       ELSE /\ sent' = SortInPlace(sent, k, ordered)
            /\ ret' = [ret EXCEPT ![q] =
                         IF op[q] = "Diff"
                         THEN DiffKey(@, k, sent', received, ordered)
                         ELSE GenerateReportKey(@, k, sent', received, ordered)]
    /\ UNCHANGED <<ordered, received, terminated, metrics, lockVars, pc, loopVars,
                   op, todo, low, targ, crashed, dedupVars>>

\* the range is over: the return value is fixed
Return(q) ==
    /\ ~crashed /\ pc[q] = "range"
    /\ todo[q] \subseteq seen[q]
    /\ ret' = [ret EXCEPT ![q] = IF op[q] = "Diff" THEN [text |-> DiffReturn(@)] ELSE @]
    /\ pc' = [pc EXCEPT ![q] = "return"]
    /\ UNCHANGED <<managerVars, lockVars, loopVars, op, todo, seen, low, targ, crashed,
                   dedupVars>>

\* defer s.lock.RUnlock(); the caller has the value
QueryRUnlock(q) ==
    /\ ~crashed /\ pc[q] = "return"
    /\ readerCount' = readerCount - 1
    /\ pc' = [pc EXCEPT ![q] = "idle"]
    /\ op' = [op EXCEPT ![q] = "none"]
    /\ todo' = [todo EXCEPT ![q] = {}]
    /\ seen' = [seen EXCEPT ![q] = {}]
    /\ ret' = [ret EXCEPT ![q] = NoValue]
    /\ low' = [low EXCEPT ![q] = 0]
    /\ UNCHANGED <<managerVars, writer, loopVars, targ, crashed, dedupVars>>

\* An insertion writes a map (under the read lock) that a query is reading
\* or that another insertion is writing: the Go runtime may detect it and
\* end the process ("fatal error: concurrent map read and map write",
\* "concurrent map writes"); otherwise the goroutines go on with the ledger
\* as they find it.
Reads(o, l) == o # "ReceivedCount" \/ l \notin SentLoops

ConcurrentMapFault ==
    /\ ~crashed
    /\ \E l \in Started :
          /\ pc[l] = "append"
          /\ \/ \E q \in Callers : pc[q] = "range" /\ Reads(op[q], l)
             \/ \E l2 \in Started \ {l} :
                   pc[l2] = "append" /\ (l2 \in SentLoops <=> l \in SentLoops)
    /\ crashed' = TRUE
    /\ UNCHANGED <<managerVars, lockVars, pc, loopVars, callerVars, targ, dedupVars>>

\* --------------------------------------------------------- Terminated
\* s.lock.Lock(): the writer announces itself; no new reader gets in
TerminatedLock(m) ==
    /\ ~crashed /\ pc["Terminated"] = "idle"
    /\ writer = "none"
    /\ writer' = "pending"
    /\ targ' = m
    /\ pc' = [pc EXCEPT !["Terminated"] = "lock"]
    /\ UNCHANGED <<managerVars, readerCount, loopVars, callerVars, crashed, dedupVars>>

\* s.lock.Lock() returns once the readers have left
TerminatedAcquire ==
    /\ ~crashed /\ pc["Terminated"] = "lock"
    /\ CanLock
    /\ writer' = "held"
    /\ pc' = [pc EXCEPT !["Terminated"] = "set"]
    /\ UNCHANGED <<managerVars, readerCount, loopVars, callerVars, targ, crashed, dedupVars>>

\* lines 180-181, then the deferred s.lock.Unlock()
TerminatedSet ==
    /\ ~crashed /\ pc["Terminated"] = "set"
    /\ terminated' = TRUE
    /\ metrics' = targ
    /\ writer' = "none"
    /\ pc' = [pc EXCEPT !["Terminated"] = "done"]
    /\ UNCHANGED <<ordered, sent, received, readerCount, loopVars, callerVars,
                   targ, crashed, dedupVars>>

\* ----------------------------------------------------- specifications
Next ==
    \/ \E l \in Started, e \in Delivered : Take(l, e)
    \/ \E l \in Started : Close(l)
    \/ \E l \in Started : InsertAppend(l)
    \/ \E l \in Started : Signal(l)
    \/ \E q \in Callers, o \in Ops : Call(q, o)
    \/ \E q \in Callers, k \in Keys : Visit(q, k)
    \/ \E q \in Callers : Return(q)
    \/ \E q \in Callers : QueryRUnlock(q)
    \/ ConcurrentMapFault
    \/ \E m \in Metrics : TerminatedLock(m)
    \/ TerminatedAcquire
    \/ TerminatedSet

\* The manager under its two loops, its query callers and one Terminated call
Spec == Init /\ [][Next]_vars

\* A settled manager: both loops have drained their closed sources (any
\* well-formed streams within the bounds) and signalled; one goroutine then
\* calls ReceivedCount, Diff and GenerateReport, one call after the other.
\* With Ordered false insert never looks at the extensions, so the streams
\* of that mode carry none.
Streams(ord) == IF ord THEN WellFormed ELSE [id : IDs, ext : {NoExt}]

InitSettled ==
    /\ ordered \in BOOLEAN
    /\ \E ss \in SeqsUpTo(Streams(ordered), MaxSentLen),
          rs \in SeqsUpTo(Streams(ordered), MaxReceivedLen) :
          /\ taken = [l \in Loops |-> IF l = "ReadSent" THEN ss ELSE rs]
          /\ sent = InsertAll(ss, EmptyMap, ordered)
          /\ received = InsertAll(rs, EmptyMap, ordered)
    /\ terminated = FALSE
    /\ metrics = ZeroMetrics
    /\ readerCount = 0
    /\ writer = "none"
    /\ pc = [p \in Procs |-> IF p \in Loops THEN "done" ELSE "idle"]
    /\ closed = [l \in Loops |-> TRUE]
    /\ sg = [l \in Loops |-> 1]
    /\ budget = Len(taken["ReadSent"]) + Len(taken["ReadReceived"])
    /\ pk = [l \in Loops |-> unknownPartitionKey]
    /\ op = [q \in Callers |-> "none"]
    /\ todo = [q \in Callers |-> {}]
    /\ seen = [q \in Callers |-> {}]
    /\ ret = [q \in Callers |-> NoValue]
    /\ low = [q \in Callers |-> 0]
    /\ targ = ZeroMetrics
    /\ crashed = FALSE
    /\ a = <<>>
    /\ rd = NoRet

\* The manager after NewStateManager, ReadSent and ReadReceived, with sources
\* that deliver b events in all.
InitManager(b) ==
    /\ ordered \in BOOLEAN
    /\ sent = EmptyMap
    /\ received = EmptyMap
    /\ terminated = FALSE
    /\ metrics = ZeroMetrics
    /\ readerCount = 0
    /\ writer = "none"
    /\ budget = b
    /\ op = [q \in Callers |-> "none"]
    /\ todo = [q \in Callers |-> {}]
    /\ seen = [q \in Callers |-> {}]
    /\ ret = [q \in Callers |-> NoValue]
    /\ low = [q \in Callers |-> 0]
    /\ targ = ZeroMetrics
    /\ crashed = FALSE
    /\ a = <<>>
    /\ rd = NoRet

InitLoopsOf(ls) ==
    /\ pc = [p \in ls \cup Callers \cup {"Terminated"} |->
               IF p \in ls THEN "range" ELSE "idle"]
    /\ taken = [l \in ls |-> <<>>]
    /\ closed = [l \in ls |-> FALSE]
    /\ sg = [l \in ls |-> 0]
    /\ pk = [l \in ls |-> unknownPartitionKey]

\* ReadSent has been called twice on the same manager (two goroutines
\* insert into s.sent), ReadReceived once.
InitRestarted ==
    /\ InitManager(MaxRestartEvents)
    /\ InitLoopsOf(Loops \cup {SecondReadSent})

SpecRestarted == InitRestarted /\ [][Next]_vars

\* The two loops on their own: no query and no Terminated call runs, and
\* the sources deliver events of every ID and every kind of attribute.
AllEvents == [id : IDs, ext : Exts]

InitLoops == InitManager(MaxLoopEvents) /\ InitLoopsOf(Loops)

NextLoops ==
    \/ \E l \in Loops, e \in AllEvents : Take(l, e)
    \/ \E l \in Loops : Close(l)
    \/ \E l \in Loops : InsertAppend(l)
    \/ \E l \in Loops : Signal(l)

SpecLoops == InitLoops /\ [][NextLoops]_vars

\* Diff run from start to end with nothing else running: what it returns
\* for the ledgers snt and rcv.
RECURSIVE DiffOver(_, _, _, _, _)
DiffOver(d, ks, snt, rcv, ord) ==
    IF ks = {} THEN DiffReturn(d)
    ELSE LET k == CHOOSE x \in ks : TRUE
         IN  DiffOver(DiffKey(d, k, SortInPlace(snt, k, ord), rcv, ord),
                      ks \ {k}, snt, rcv, ord)

DiffOf(snt, rcv, ord) == DiffOver(DiffInit, DOMAIN snt, snt, rcv, ord)

\* The manager under a fair scheduler, with sources that deliver well-formed
\* events only (no partitionkey, or a string) and are closed in the end:
\* a goroutine that can run does run, and a query that holds the read lock
\* goes on to release it.
WellFormedDelivered == [id : {"e1"}, ext : {NoExt, StrExt("p1")}]

NextFair ==
    \/ \E l \in Loops, e \in WellFormedDelivered : Take(l, e)
    \/ \E l \in Loops : Close(l)
    \/ \E l \in Loops : InsertAppend(l)
    \/ \E l \in Loops : Signal(l)
    \/ \E q \in Callers, o \in Ops : Call(q, o)
    \/ \E q \in Callers, k \in Keys : Visit(q, k)
    \/ \E q \in Callers : Return(q)
    \/ \E q \in Callers : QueryRUnlock(q)
    \/ ConcurrentMapFault
    \/ \E m \in Metrics : TerminatedLock(m)
    \/ TerminatedAcquire
    \/ TerminatedSet

\* what every step of a loop, a query or Terminated changes
position == <<pc, closed, seen>>

Fairness ==
    /\ \A l \in Loops :
          WF_position(Close(l)) /\ WF_position(InsertAppend(l)) /\ WF_position(Signal(l))
    /\ \A q \in Callers :
          /\ WF_position(\E k \in Keys : Visit(q, k))
          /\ WF_position(Return(q))
          /\ WF_position(QueryRUnlock(q))
    /\ WF_position(TerminatedAcquire)
    /\ WF_position(TerminatedSet)

FairSpec == Init /\ [][NextFair]_vars /\ Fairness

NextSettled ==
    \/ \E o \in Ops : Call("q1", o)
    \/ \E k \in Keys : Visit("q1", k)
    \/ Return("q1")
    \/ QueryRUnlock("q1")

SpecSettled == InitSettled /\ [][NextSettled]_vars

\* removeDuplicates called on its own, on any sequence of IDs within the bound
InitDedup ==
    /\ ordered = FALSE
    /\ sent = EmptyMap
    /\ received = EmptyMap
    /\ terminated = FALSE
    /\ metrics = ZeroMetrics
    /\ readerCount = 0
    /\ writer = "none"
    /\ pc = [p \in Procs |-> "idle"]
    /\ taken = [l \in Loops |-> <<>>]
    /\ closed = [l \in Loops |-> FALSE]
    /\ sg = [l \in Loops |-> 0]
    /\ budget = 0
    /\ pk = [l \in Loops |-> unknownPartitionKey]
    /\ op = [q \in Callers |-> "none"]
    /\ todo = [q \in Callers |-> {}]
    /\ seen = [q \in Callers |-> {}]
    /\ ret = [q \in Callers |-> NoValue]
    /\ low = [q \in Callers |-> 0]
    /\ targ = ZeroMetrics
    /\ crashed = FALSE
    /\ a \in SeqsUpTo(IDs, MaxDedupLen)
    /\ rd = NoRet

CallRemoveDuplicates ==
    /\ rd = NoRet
    /\ rd' = removeDuplicates(a)
    /\ UNCHANGED <<managerVars, lockVars, pc, loopVars, callerVars, targ, crashed, a>>

SpecDedup == InitDedup /\ [][CallRemoveDuplicates]_vars

\* ================================================================ claims
Stored(store, k) == IF k \in DOMAIN store THEN store[k] ELSE <<>>

Returned(q, o) == pc[q] = "return" /\ op[q] = o

\* the elements of s at the indices in I, in ascending order of index
RECURSIVE AtIndices(_, _)
AtIndices(s, I) ==
    IF I = {} THEN <<>>
    ELSE LET m == CHOOSE i \in I : \A j \in I : i <= j
         IN  <<s[m]>> \o AtIndices(s, I \ {m})

FirstIndices(s) == {i \in 1..Len(s) : \A j \in 1..(i - 1) : s[j] # s[i]}
FirstOccurrences(s) == AtIndices(s, FirstIndices(s))
RepeatOccurrences(s) == AtIndices(s, (1..Len(s)) \ FirstIndices(s))
Count(s, x) == Cardinality({i \in 1..Len(s) : s[i] = x})
SameMultiset(s, t) == \A x \in IDs : Count(s, x) = Count(t, x)

RECURSIVE SumOver(_, _)
SumOver(f, ks) ==
    IF ks = {} THEN 0
    ELSE LET k == CHOOSE x \in ks : TRUE IN f[k] + SumOver(f, ks \ {k})

\* C1: for every key of the sent ledger GenerateReport returns the raw
\* received sequence of that key as its received events, and ReceivedCount
\* is the sum of the lengths of these raw sequences.
C1_ReceivedIsRaw ==
    \A q \in Callers :
        Returned(q, "GenerateReport") =>
            /\ \A k \in DOMAIN sent :
                  ret[q].ReceivedEventsByPartitionKey[k] = Stored(received, k)
            /\ ret[q].ReceivedCount =
                  SumOver([k \in DOMAIN sent |-> Len(Stored(received, k))], DOMAIN sent)

\* a step of caller q inside the query o
StepOf(q, o) ==
    /\ <<pc[q], seen[q]>> # <<pc'[q], seen'[q]>>
    /\ op[q] = o \/ op'[q] = o

\* C2: no step of a GenerateReport call changes the sent or the received
\* ledger (key sets and the order of every sequence).
C2_ReportLeavesLedger ==
    [][\A q \in Callers :
          StepOf(q, "GenerateReport") => sent' = sent /\ received' = received]_vars

\* C3: while a loop is inside an insertion into a ledger, no ReceivedCount,
\* Diff or GenerateReport call is reading that ledger.
C3_NoReadDuringInsert ==
    \A l \in Loops, q \in Callers :
        ~(pc[l] = "append" /\ pc[q] = "range" /\ Reads(op[q], l))

\* C4: once Terminated(m) has returned, the terminated flag stays true and
\* every GenerateReport carries Terminated = true and Metrics = m.
C4_TerminationSnapshot ==
    pc["Terminated"] = "done" =>
        /\ terminated
        /\ \A q \in Callers :
              (op[q] = "GenerateReport" /\ pc[q] \in {"range", "return"}) =>
                  ret[q].Terminated /\ ret[q].Metrics = targ

C4_Witness ==
    /\ pc["Terminated"] = "done"
    /\ \E q \in Callers :
          /\ Returned(q, "GenerateReport")
          /\ ret[q].Terminated /\ ret[q].Metrics = targ /\ targ \in Metrics
          /\ ret[q].ReceivedCount > 0

\* C5: while Terminated is inside its critical section no insertion and no
\* query is inside the lock.
C5_TerminatedExclusive ==
    pc["Terminated"] = "set" =>
        /\ writer = "held"
        /\ readerCount = 0
        /\ \A l \in Loops : pc[l] # "append"
        /\ \A q \in Callers : pc[q] = "idle"

C5_Witness ==
    /\ pc["Terminated"] = "set"
    /\ \E l \in Loops : Store(l) # EmptyMap

\* the IDs of the events of es whose partition key is k, in order
RECURSIVE IDsWithKey(_, _)
IDsWithKey(es, k) ==
    IF es = <<>> THEN <<>>
    ELSE (IF PartitionKey(Head(es), ordered) = k THEN <<Head(es).id>> ELSE <<>>)
         \o IDsWithKey(Tail(es), k)

\* the events of loop l whose insertion is complete
Inserted(l) ==
    IF pc[l] \in {"append", "panic"} THEN SubSeq(taken[l], 1, Len(taken[l]) - 1)
    ELSE taken[l]

TotalLen(store) == SumOver([k \in DOMAIN store |-> Len(store[k])], DOMAIN store)

\* C6: a loop emits its completion signal at most once, has emitted it
\* exactly when it has ended, and emits it only when its source is closed
\* and every event it took is in its ledger; after the signal the loop takes
\* and records nothing.
C6_SignalOnceAfterDrain ==
    /\ [](\A l \in Loops :
             /\ sg[l] \in {0, 1}
             /\ sg[l] = 1 <=> pc[l] = "done"
             /\ sg[l] = 1 =>
                   /\ closed[l]
                   /\ TotalLen(Store(l)) = Len(taken[l])
                   /\ \A k \in Keys : SameMultiset(Stored(Store(l), k), IDsWithKey(taken[l], k)))
    /\ [][\A l \in Loops :
             sg[l] = 1 => /\ sg'[l] = 1
                          /\ taken'[l] = taken[l]
                          /\ TotalLen(Store(l))' = TotalLen(Store(l))]_vars

C6_Witness ==
    \E l \in Loops : sg[l] = 1 /\ Len(taken[l]) > 0 /\ TotalLen(Store(l)) = Len(taken[l])

\* C7: in every reachable state the sequence a ledger stores under a key is
\* the subsequence, in order, of the IDs with that key its loop has inserted.
C7_OrderPreserved ==
    \A l \in Loops, k \in Keys :
        Stored(Store(l), k) = IDsWithKey(Inserted(l), k)

\* C8: for every key of the sent ledger the lost events GenerateReport
\* returns are the IDs of sent[k] that do not occur in received[k], each
\* once, and LostCount is the number of these IDs over all sent keys.
C8_LostIsSetDifference ==
    \A q \in Callers :
        Returned(q, "GenerateReport") =>
            LET lost == ret[q].LostEventsByPartitionKey
                missing == [k \in DOMAIN sent |->
                              Range(sent[k]) \ Range(Stored(received, k))]
            IN  /\ DOMAIN lost = DOMAIN sent
                /\ \A k \in DOMAIN sent :
                      /\ Range(lost[k]) = missing[k]
                      /\ Len(lost[k]) = Cardinality(missing[k])
                /\ ret[q].LostCount =
                      SumOver([k \in DOMAIN sent |-> Cardinality(missing[k])], DOMAIN sent)

C8_Witness ==
    \E q \in Callers :
        /\ Returned(q, "GenerateReport")
        /\ "p1" \in DOMAIN sent /\ Range(sent["p1"]) = {"e1", "e2"}
        /\ Stored(received, "p1") = <<"e1">>
        /\ ret[q].LostEventsByPartitionKey["p1"] = <<"e2">>
        /\ ret[q].LostCount = 1

\* C9: removeDuplicates returns the first occurrences of its argument in
\* order, each ID once, and the repeat occurrences in order; an ID occurring
\* N times is once in the first and N-1 times in the second result.
C9_RemoveDuplicates ==
    rd # NoRet =>
        LET result == rd[1]
            duplicates == rd[2]
        IN  /\ result = FirstOccurrences(a)
            /\ duplicates = RepeatOccurrences(a)
            /\ Len(result) + Len(duplicates) = Len(a)
            /\ \A x \in IDs :
                  /\ Count(result, x) <= 1
                  /\ Count(a, x) > 0 =>
                        Count(result, x) = 1 /\ Count(duplicates, x) = Count(a, x) - 1

C9_Witness ==
    /\ a = <<"e1", "e1", "e2", "e1">>
    /\ rd = << <<"e1", "e2">>, <<"e1", "e1">> >>

\* C10: with sent [e1,e2] and received [e2,e1] under one key Diff is
\* non-empty when Ordered and empty when not; Diff is empty only if, for
\* every sent key, the first occurrences of the received sequence equal the
\* sent sequence (Ordered) or hold the same IDs as often (not Ordered).
C10_DiffOrderSensitivity ==
    \A q \in Callers :
        Returned(q, "Diff") =>
            /\ (\E k \in DOMAIN sent :
                   /\ (IF ordered THEN sent[k] ELSE SortStrings(sent[k])) = <<"e1", "e2">>
                   /\ DOMAIN sent = {k}
                   /\ Stored(received, k) = <<"e2", "e1">>)
                 => (ret[q].text = <<>> <=> ~ordered)
            /\ ret[q].text = <<>> =>
                  \A k \in DOMAIN sent :
                      IF ordered
                      THEN FirstOccurrences(Stored(received, k)) = sent[k]
                      ELSE SameMultiset(FirstOccurrences(Stored(received, k)), sent[k])

C10_Witness ==
    \E q \in Callers :
        /\ Returned(q, "Diff") /\ ordered
        /\ sent = [k \in {"p1"} |-> <<"e1", "e2">>]
        /\ received = [k \in {"p1"} |-> <<"e2", "e1">>]
        /\ ret[q].text # <<>>

\* the sent and the received sequence are equal under every key: as
\* sequences when Ordered, as multisets when not
LedgersMatch ==
    \A k \in DOMAIN sent \cup DOMAIN received :
        IF ordered
        THEN Stored(sent, k) = Stored(received, k)
        ELSE SameMultiset(Stored(sent, k), Stored(received, k))

NoRepeatedID == \A k \in DOMAIN sent : \A x \in IDs : Count(sent[k], x) <= 1

\* C11 as stated: whenever the sent and the received sequence are equal
\* under every key, Diff returns the empty string, also when an ID occurs
\* more than once in a sequence.
C11_EqualLedgersEmptyDiff ==
    \A q \in Callers :
        Returned(q, "Diff") /\ LedgersMatch => ret[q].text = <<>>

\* C11: whenever the sent and the received sequence are equal under every
\* key and no ID occurs more than once in a sent sequence, Diff returns the
\* empty string.
C11_EqualDistinctLedgersEmptyDiff ==
    \A q \in Callers :
        Returned(q, "Diff") /\ LedgersMatch /\ NoRepeatedID => ret[q].text = <<>>

C11_Witness ==
    \E q \in Callers :
        /\ Returned(q, "Diff") /\ LedgersMatch /\ NoRepeatedID
        /\ \E k \in DOMAIN sent : Len(sent[k]) = 2
        /\ ret[q].text = <<>>

\* C12: the report accounts for every event of the received ledger, also
\* under keys that were never sent: its ReceivedCount is the number of IDs
\* in the received ledger (what ReceivedCount() returns once the loops have
\* finished) and its received-by-partition map holds every received key
\* with its sequence.
C12_ReportCountsReceivedOnlyKeys ==
    \A q \in Callers :
        Returned(q, "GenerateReport") =>
            /\ ret[q].ReceivedCount = TotalLen(received)
            /\ \A k \in DOMAIN received :
                  /\ k \in DOMAIN ret[q].ReceivedEventsByPartitionKey
                  /\ ret[q].ReceivedEventsByPartitionKey[k] = received[k]

\* the insertions loop l has completed: the events it has taken, less the
\* one it is still inserting or died on
CompletedInsertions(l) ==
    Len(taken[l]) - (IF pc[l] \in {"append", "panic"} THEN 1 ELSE 0)

C14_UnorderedSingleKey ==
    ~ordered =>
        /\ DOMAIN sent \subseteq {unknownPartitionKey}
        /\ DOMAIN received \subseteq {unknownPartitionKey}
        /\ \A l \in Loops :
              /\ pc[l] # "panic"
              /\ pc[l] = "append" => pk[l] = unknownPartitionKey
              /\ Len(Stored(Store(l), unknownPartitionKey)) = CompletedInsertions(l)

C14_Witness ==
    /\ ~ordered
    /\ \E l \in Loops :
          /\ pc[l] = "done"
          /\ taken[l] = <<[id |-> "e1", ext |-> OtherExt]>>
          /\ Store(l) = [k \in {unknownPartitionKey} |-> <<"e1">>]

\* C15: when Ordered is on, an event whose partitionkey attribute is present
\* and not a string ends the insertion with a panic: the step leaves both
\* ledgers as they were, and from then on the loop takes no event, no
\* ledger changes and no completion signal is emitted.
C15_NonStringKeyFatal ==
    /\ [](\A l \in Loops :
            /\ (ordered /\ taken[l] # <<>> /\ taken[l][Len(taken[l])].ext = OtherExt)
                  => pc[l] = "panic"
            /\ pc[l] = "panic" =>
                  /\ crashed /\ sg[l] = 0
                  /\ TotalLen(Store(l)) = Len(taken[l]) - 1)
    /\ [][\A l \in Loops :
            pc'[l] = "panic" =>
               /\ sent' = sent /\ received' = received
               /\ pc[l] = "panic" => taken' = taken /\ sg' = sg /\ pc' = pc]_vars

C15_Witness ==
    /\ ordered
    /\ \E l \in Loops :
          /\ pc[l] = "panic" /\ sg[l] = 0
          /\ taken[l] = <<[id |-> "e1", ext |-> OtherExt]>>
          /\ sent = EmptyMap /\ received = EmptyMap

\* C16: two insertions into the same ledger are never in progress at once,
\* also when ReadSent has been started twice on the manager, and so each
\* ledger holds as many IDs as insertions have been completed on it.
C16_InsertionsNeverOverlap ==
    /\ \A l1 \in Started, l2 \in Started :
          (l1 # l2 /\ (l1 \in SentLoops <=> l2 \in SentLoops))
             => ~(pc[l1] = "append" /\ pc[l2] = "append")
    /\ TotalLen(sent) = SumOver([l \in Started \cap SentLoops |-> CompletedInsertions(l)],
                                Started \cap SentLoops)
    /\ TotalLen(received) = CompletedInsertions("ReadReceived")

\* the key an Ordered insertion of event e must use
ExpectedKey(e) == IF e.ext = NoExt THEN unknownPartitionKey ELSE e.ext[2]

\* store2 is store with id appended to the sequence of key k, which is
\* created if store has none, and with every other sequence as it was
AppendedUnder(store, store2, k, id) ==
    /\ DOMAIN store2 = DOMAIN store \cup {k}
    /\ store2[k] = Append(Stored(store, k), id)
    /\ \A x \in DOMAIN store \ {k} : store2[x] = store[x]

\* C17: when Ordered is on an insertion uses the string partitionkey of the
\* event, or "unknown" when the event has none, and does not fail; from the
\* state before the insertion to the state after it exactly one ID, the
\* event's, is appended to the sequence of that key in the loop's own
\* ledger, the sequence being created on first use, and every other
\* sequence and the other ledger stay as they were.
C17_OrderedInsertion ==
    /\ [](\A l \in Loops :
            (ordered /\ taken[l] # <<>> /\ taken[l][Len(taken[l])].ext # OtherExt)
               => /\ pc[l] # "panic"
                  /\ pc[l] = "append" => pk[l] = ExpectedKey(taken[l][Len(taken[l])]))
    /\ [][\A l \in Loops :
            LET mine == IF l \in SentLoops THEN sent ELSE received
                mine2 == IF l \in SentLoops THEN sent' ELSE received'
                other == IF l \in SentLoops THEN received ELSE sent
                other2 == IF l \in SentLoops THEN received' ELSE sent'
            IN  /\ (pc[l] = "range" /\ pc'[l] = "append") =>
                      /\ other2 = other
                      /\ DOMAIN mine2 = DOMAIN mine \cup {pk'[l]}
                      /\ \A x \in DOMAIN mine : mine2[x] = mine[x]
                      /\ pk'[l] \notin DOMAIN mine => mine2[pk'[l]] = <<>>
                /\ (pc[l] = "append" /\ pc'[l] = "range") =>
                      /\ other2 = other
                      /\ taken'[l] = taken[l]
                      /\ AppendedUnder(mine, mine2, pk[l], taken[l][Len(taken[l])].id)
                /\ (pc'[l] = pc[l] /\ ~(pc[l] = "append" /\ pc'[l] = "append"))
                      => mine2 = mine]_vars

C17_Witness ==
    /\ ordered
    /\ pc["ReadSent"] = "range" /\ pc["ReadReceived"] = "range"
    /\ taken["ReadSent"] = <<[id |-> "e1", ext |-> StrExt("p1")]>>
    /\ taken["ReadReceived"] = <<[id |-> "e2", ext |-> NoExt]>>
    /\ sent = [k \in {"p1"} |-> <<"e1">>]
    /\ received = [k \in {unknownPartitionKey} |-> <<"e2">>]

\* the comparison Diff makes under a sent key finds no difference
KeyAgrees(k) ==
    IF ordered
    THEN FirstOccurrences(Stored(received, k)) = sent[k]
    ELSE SameMultiset(FirstOccurrences(Stored(received, k)), sent[k])

\* C18: Diff returns the empty string exactly when no sent key shows a
\* difference, whatever the received ledger holds under keys that were never
\* sent; in particular it is empty when the sent ledger is empty.
C18_DiffDrivenBySentKeys ==
    \A q \in Callers :
        Returned(q, "Diff") =>
            /\ ret[q].text = <<>> <=> \A k \in DOMAIN sent : KeyAgrees(k)
            /\ DOMAIN sent = {} => ret[q].text = <<>>

\* an empty Diff although a key was received that was never sent
C18_Witness ==
    \E q \in Callers :
        /\ Returned(q, "Diff") /\ ordered
        /\ sent = [k \in {"p1"} |-> <<"e1">>]
        /\ received = [k \in {unknownPartitionKey, "p1"} |-> <<"e1">>]
        /\ ret[q].text = <<>>

\* C20: with no insertion in progress, in either mode, if Diff returns the
\* empty string for the ledgers then the report GenerateReport returns for
\* them has LostCount 0 and an empty lost list under every sent key.
C20_EmptyDiffMeansNoLoss ==
    \A q \in Callers :
        (Returned(q, "GenerateReport") /\ DiffOf(sent, received, ordered) = <<>>) =>
            /\ ret[q].LostCount = 0
            /\ DOMAIN ret[q].LostEventsByPartitionKey = DOMAIN sent
            /\ \A k \in DOMAIN sent : ret[q].LostEventsByPartitionKey[k] = <<>>

C20_Witness ==
    \E q \in Callers :
        /\ Returned(q, "GenerateReport")
        /\ DiffOf(sent, received, ordered) = <<>>
        /\ \E k \in DOMAIN sent : Len(sent[k]) = 2 /\ Len(received[k]) = 2
        /\ ret[q].LostCount = 0

\* C19: under a fair scheduler each loop, its source delivering finitely
\* many well-formed events and then being closed, eventually has recorded
\* every event it took and offered its completion signal, whatever the
\* other loop, the queries and a Terminated call do; and a Terminated call
\* that has begun eventually returns.
C19_LoopsAndTerminatedFinish ==
    /\ \A l \in Loops :
          <>(/\ pc[l] = "done" /\ sg[l] = 1
             /\ TotalLen(Store(l)) = Len(taken[l]))
    /\ (pc["Terminated"] = "lock") ~> (pc["Terminated"] = "done")

====
